---- MODULE Spec2Model ----
(* Model of the Gin expansion engine (packages/core/src/gin.ts, first       *)
(* revision in the file, lines 1-516), its Module registry (module.ts) and  *)
(* the Sink contract (sink.ts).  The engine is single-threaded; every       *)
(* action below is the code that runs between two suspension points.        *)
EXTENDS Integers, Sequences, FiniteSets, TLC

\* ------------------------------------------------------------------ bounds
MaxRuns == 2          \* run() invocations on one engine instance
MaxRootEmits == 2     \* emit calls issued by one callback
MaxPromises == 4      \* emissions and package loads of one execution, in total
MaxDepth == 3         \* nesting depth of the values given to replaceValues / dropUndefined
MaxRegs == 3          \* withAdapter calls made on one Module
MaxMappings == 2      \* withPackageMapping calls made after construction
MaxLoads == 2         \* withPackage calls made by the pipeline itself

\* ------------------------------------------------------------- primitives
Undef == "undefined"   \* an absent string

\* an absent structured value (token sequence, record, list) and a present one
None == <<>>
Some(x) == <<x>>

\* apiVersion strings are kept as token sequences: words over [a-z0-9-] and
\* the separators between them, so that the regular expression built by
\* withPackageMapping can be evaluated on them.
AV_CORE == <<"v1">>
AV_DEMO == <<"demo", ".", "io", "/", "v1">>
AV_A == <<"a", ".", "gin", ".", "jsr", ".", "io", "/", "v1">>
AV_B == <<"b", ".", "gin", ".", "jsr", ".", "io", "/", "v1">>

Separators == {".", "/", ":", "@", "jsr:", "@gin/", "@x/", "-", "{name}", "{version}"}
IsWord(t) == t \notin Separators

DefaultApiVersionFormat == <<"{name}", ".", "gin", ".", "jsr", ".", "io", "/", "{version}">>
DefaultPackageFormat == <<"jsr:", "@gin/", "{name}", "-", "{version}">>

\* ------------------------------------------- utils.ts on document values
\* A JavaScript value: a string, undefined, an array, a plain object, or a
\* SecretValue (an object whose one own property is `secretValue`).  `kids`
\* are the entries of a container, in Object.entries order.
VStr == [t |-> "str", s |-> "x", kids |-> <<>>]
VUndef == [t |-> "undef", s |-> "", kids |-> <<>>]
Entry(k, v) == [k |-> k, v |-> v]
VSecret(v) == [t |-> "secret", s |-> "", kids |-> <<Entry("secretValue", v)>>]
VArr(vs) == [t |-> "arr", s |-> "", kids |-> [i \in DOMAIN vs |-> Entry("", vs[i])]]
VObj(es) == [t |-> "obj", s |-> "", kids |-> es]

Atoms == {VStr, VUndef}

\* containers of one or two entries over the values of S
Containers(X) ==
  {VSecret(v) : v \in X}
    \cup {VArr(<<v>>) : v \in X}
    \cup {VArr(<<v, w>>) : v \in X, w \in Atoms}
    \cup {VArr(<<w, v>>) : v \in X, w \in Atoms}
    \cup {VObj(<<Entry("a", v)>>) : v \in X}
    \cup {VObj(<<Entry("a", v), Entry("b", w)>>) : v \in X, w \in Atoms}
    \cup {VObj(<<Entry("a", w), Entry("b", v)>>) : v \in X, w \in Atoms}

RECURSIVE Level(_)
Level(n) == IF n = 0 THEN Atoms ELSE Atoms \cup Containers(Level(n - 1))

\* SecretValue.isSecretValue
isSecretValue(v) == v.t = "secret"

IsContainer(v) == v.t \in {"arr", "obj", "secret"}

\* the mapping function emit passes to replaceValues
Unwrap(v) == IF isSecretValue(v) THEN v.kids[1].v ELSE v

\* replaceValues(obj, mappingFn) with the default order "pre"
RECURSIVE replaceValues(_)
replaceValues(v) ==
  LET w == Unwrap(v)
  IN IF IsContainer(w)
     THEN [w EXCEPT !.kids = [i \in DOMAIN w.kids |->
                                Entry(w.kids[i].k, replaceValues(w.kids[i].v))]]
     ELSE w

IsDefinedEntry(x) == x.v.t # "undef"

\* dropUndefined pruning the top level only
dropUndefinedShallow(v) ==
  IF IsContainer(v) THEN [v EXCEPT !.kids = SelectSeq(v.kids, IsDefinedEntry)] ELSE v

\* dropUndefined: undefined entries filtered out, the rest mapped recursively.
\* Object.fromEntries yields a plain object; it still has a `secretValue`
\* key exactly when that entry was kept.
RECURSIVE dropUndefined(_)
dropUndefined(v) ==
  IF IsContainer(v)
  THEN LET kept == SelectSeq(v.kids, IsDefinedEntry)
       IN [v EXCEPT !.t = IF v.t = "secret" /\ kept = <<>> THEN "obj" ELSE @,
                    !.kids = [i \in DOMAIN kept |-> Entry(kept[i].k, dropUndefined(kept[i].v))]]
  ELSE v

\* ResourceLocator.of(resource): the (apiVersion, kind, namespace, name) key.
Locator(d) == <<d.apiVersion, d.kind, d.namespace, d.name>>

\* The `gin` metadata record; every member is None or Some(value).
EmptyGin ==
  [emittedFrom |-> None, emittedFromRoot |-> None,
   loadedFrom |-> None, loadedFromRoot |-> None,
   parent |-> None, children |-> None, notes |-> None]

\* `resource.gin = resource.gin || {}`
GinOrEmpty(g) == IF g = None THEN Some(EmptyGin) ELSE g

\* A document; `data` stands for its payload fields (spec, stringData, ...).
Doc(av, kind, ns, name) ==
  [apiVersion |-> av, kind |-> kind, namespace |-> ns, name |-> name,
   data |-> VObj(<<Entry("a", VStr)>>), gin |-> None, annotation |-> None]

\* a document holding a SecretValue in its payload
Sealed(d) == [d EXCEPT !.data = VObj(<<Entry("a", VSecret(VStr))>>)]


\* F applied to the value of x: x is computed once, like a `const` of the
\* code, however often F uses it
With(x, F(_)) == CHOOSE r \in {F(y) : y \in {x}} : TRUE

Min(S) == CHOOSE x \in S : \A y \in S : x <= y

Max(X) == CHOOSE x \in X : \A y \in X : y <= x

EmptyMap == [x \in {} |-> Undef]

\* Map.set(k, v)
MapSet(m, k, v) == [x \in DOMAIN m \cup {k} |-> IF x = k THEN v ELSE m[x]]

\* ------------------------------------------------- package mapping (regex)
GROUP == "([a-z0-9-]+)"

\* String.prototype.replace with a string pattern: first occurrence only.
ReplaceFirst(s, from, to) ==
  LET idx == {i \in DOMAIN s : s[i] = from}
  IN IF idx = {} THEN s ELSE [s EXCEPT ![Min(idx)] = to]

\* withPackageMapping: the format compiled to an (unanchored) regex.
CompileRegex(fmt) == ReplaceFirst(ReplaceFirst(fmt, "{name}", GROUP), "{version}", GROUP)

withPackageMapping(mappings, apiVersionFormat, packageFormat) ==
  Append(mappings, [apiVersionRegex |-> CompileRegex(apiVersionFormat),
                    packageFormat |-> packageFormat])

MatchAt(av, re, off) ==
  /\ off + Len(re) <= Len(av)
  /\ \A j \in DOMAIN re :
       IF re[j] = GROUP THEN IsWord(av[off + j]) ELSE av[off + j] = re[j]

\* apiVersion.match(regex): None, or the captured groups of the leftmost match.
RegexMatch(av, re) ==
  LET offs == {o \in 0..Len(av) : MatchAt(av, re, o)}
  IN IF offs = {} THEN None
     ELSE LET o == Min(offs)
              gs == {j \in DOMAIN re : re[j] = GROUP}
              g1 == IF gs = {} THEN 0 ELSE Min(gs)
              gr == gs \ {g1}
              g2 == IF gr = {} THEN 0 ELSE Min(gr)
          IN Some([name |-> IF g1 = 0 THEN Undef ELSE av[o + g1],
                   version |-> IF g2 = 0 THEN Undef ELSE av[o + g2]])

RECURSIVE ResolveFrom(_, _, _)
ResolveFrom(mappings, i, av) ==
  IF i > Len(mappings) THEN None
  ELSE With(RegexMatch(av, mappings[i].apiVersionRegex), LAMBDA m :
         IF m # None
         THEN With(ReplaceFirst(mappings[i].packageFormat, "{name}", m[1].name), LAMBDA p :
                ReplaceFirst(p, "{version}", m[1].version))
         ELSE ResolveFrom(mappings, i + 1, av))

\* the loop run from the last mapping to the first
RECURSIVE ResolveDownFrom(_, _, _)
ResolveDownFrom(mappings, i, av) ==
  IF i < 1 THEN None
  ELSE LET m == RegexMatch(av, mappings[i].apiVersionRegex)
       IN IF m # None
          THEN ReplaceFirst(ReplaceFirst(mappings[i].packageFormat, "{name}", m[1].name),
                            "{version}", m[1].version)
          ELSE ResolveDownFrom(mappings, i - 1, av)

resolveLastMatch(mappings, av) == ResolveDownFrom(mappings, Len(mappings), av)

resolvePackageNameFromApiVersion(mappings, av) == ResolveFrom(mappings, 1, av)

\* ------------------------------------------------------- Module (registry)
NewModule(pkg) == [pkg |-> pkg, resourceAdapters |-> EmptyMap]

\* hasAdapter looking at the apiVersion level only
hasAdapterAnyKind(m, tag) == tag.apiVersion \in DOMAIN m.resourceAdapters

hasAdapter(m, tag) ==
  /\ tag.apiVersion \in DOMAIN m.resourceAdapters
  /\ tag.kind \in DOMAIN m.resourceAdapters[tag.apiVersion]

\* withAdapter replacing the inner map of the apiVersion by a new one
withAdapterFresh(m, tag, adapter) ==
  [m EXCEPT !.resourceAdapters =
              MapSet(@, tag.apiVersion, MapSet(EmptyMap, tag.kind, adapter))]

withAdapter(m, tag, adapter) ==
  LET inner == IF tag.apiVersion \in DOMAIN m.resourceAdapters
               THEN m.resourceAdapters[tag.apiVersion] ELSE EmptyMap
  IN [m EXCEPT !.resourceAdapters = MapSet(@, tag.apiVersion, MapSet(inner, tag.kind, adapter))]

getAdapter(m, tag) ==
  IF tag.apiVersion \notin DOMAIN m.resourceAdapters THEN "error:apiVersion"
  ELSE IF tag.kind \notin DOMAIN m.resourceAdapters[tag.apiVersion] THEN "error:kind"
  ELSE m.resourceAdapters[tag.apiVersion][tag.kind]

\* ------------------------------------------ collaborators: the generators
\* The generators and packages an engine is run against.  ThingAdapter is the
\* scenario generator (namespace required, two Sub children); CheckedAdapter
\* is terminal (returns its input); SpawnerAdapter emits a side document
\* through the engine handle without awaiting it; TwinAdapter returns one new
\* object with the locator of its input; WebAppAdapter lives in the
\* dynamically loaded package.  MixedAdapter returns its input together with a
\* new document; AppAdapter and GroupAdapter build a tree of depth two.
AdapterValidate(a, d) ==
  CASE a = "ThingAdapter" -> d.namespace # Undef
    [] a = "CheckedAdapter" -> d.namespace # Undef
    [] OTHER -> TRUE

\* generate's output list: each entry is either the exact input object or
\* a newly created document.
Input == [input |-> TRUE, doc |-> None]
New(d) == [input |-> FALSE, doc |-> Some(d)]

AdapterGenerate(a, d) ==
  CASE a = "ThingAdapter" ->
         <<New(Doc(AV_CORE, "Sub", d.namespace, "s1")),
           New(Doc(AV_CORE, "Sub", d.namespace, "s2"))>>
    [] a = "WebAppAdapter" -> <<New(Doc(AV_CORE, "Deployment", d.namespace, d.name))>>
    [] a = "TwinAdapter" -> <<New(Doc(d.apiVersion, d.kind, d.namespace, d.name))>>
    [] a = "MixedAdapter" -> <<Input, New(Doc(AV_CORE, "Sub", d.namespace, d.name))>>
    [] a = "AppAdapter" ->
         <<New(Sealed(Doc(AV_DEMO, "Group", d.namespace, d.name))),
           New(Doc(AV_CORE, "Sub", d.namespace, "z"))>>
    [] a = "GroupAdapter" -> <<New(Doc(AV_CORE, "Sub", d.namespace, d.name))>>
    [] a = "OuterAdapter" ->
         <<New(Doc(AV_DEMO, "Broken", d.namespace, d.name)),
           New(Doc(AV_CORE, "Sub", d.namespace, "after"))>>
    [] a = "BrokenAdapter" ->
         <<New(Doc(AV_DEMO, "Checked", Undef, d.name)),
           New(Doc(AV_CORE, "Sub", d.namespace, "late"))>>
    [] OTHER -> <<Input>>

\* documents generate() hands to gin.emit without awaiting the promise
AdapterSpawns(a, d) ==
  IF a = "SpawnerAdapter" THEN <<Doc(AV_DEMO, "Checked", d.namespace, "side")>> ELSE <<>>

BuiltinAdapters ==
  << <<[apiVersion |-> AV_DEMO, kind |-> "Thing"], "ThingAdapter">>,
     <<[apiVersion |-> AV_DEMO, kind |-> "Checked"], "CheckedAdapter">>,
     <<[apiVersion |-> AV_DEMO, kind |-> "Spawner"], "SpawnerAdapter">>,
     <<[apiVersion |-> AV_DEMO, kind |-> "Twin"], "TwinAdapter">>,
     <<[apiVersion |-> AV_DEMO, kind |-> "Mixed"], "MixedAdapter">>,
     <<[apiVersion |-> AV_DEMO, kind |-> "App"], "AppAdapter">>,
     <<[apiVersion |-> AV_DEMO, kind |-> "Group"], "GroupAdapter">>,
     <<[apiVersion |-> AV_A, kind |-> "Shared"], "SharedAdapter">>,
     <<[apiVersion |-> AV_DEMO, kind |-> "Outer"], "OuterAdapter">>,
     <<[apiVersion |-> AV_DEMO, kind |-> "Broken"], "BrokenAdapter">> >>

PKG_A == <<"jsr:", "@gin/", "a", "-", "v1">>
PKG_M == <<"jsr:", "@gin/", "m", "-", "v1">>
PKG_OBJ == <<"jsr:", "@gin/", "obj", "-", "v1">>
PKG_FN == <<"jsr:", "@gin/", "fn", "-", "v1">>

\* What import(packageName) yields: the shape of its default export.  Package
\* a-v1 exports a factory, m-v1 a Module, obj-v1 an object that is no Module,
\* fn-v1 a function that returns no Module; any other package is not there.
\* The module of a-v1 has generators for WebApp and for Shared.
PackageExport(pkg) ==
  IF pkg = PKG_A
  THEN [type |-> "function",
        module |-> Some(withAdapter(withAdapter(NewModule(pkg),
                                      [apiVersion |-> AV_A, kind |-> "WebApp"], "WebAppAdapter"),
                                    [apiVersion |-> AV_A, kind |-> "Shared"],
                                    "PkgSharedAdapter"))]
  ELSE IF pkg = PKG_M
  THEN [type |-> "module", module |-> Some(NewModule(pkg))]
  ELSE IF pkg = PKG_OBJ
  THEN [type |-> "other", module |-> None]
  ELSE IF pkg = PKG_FN
  THEN [type |-> "function", module |-> None]
  ELSE [type |-> "missing", module |-> None]

\* a document that was read from a file: it carries `gin.loadedFrom`
Loaded(d) == [d EXCEPT !.gin = Some([EmptyGin EXCEPT !.loadedFrom = Some("file")])]

\* The documents a pipeline emits: each execution draws its callback's
\* documents from one of these sets.
Menus ==
  { {Doc(AV_CORE, "Pod", Undef, "p"), Doc(AV_DEMO, "Thing", Undef, "t")},
    {Doc(AV_DEMO, "Thing", "ns", "t"), Doc(AV_CORE, "Pod", "ns", "q")},
    {Doc(AV_DEMO, "Twin", "ns", "tw")},
    {Doc(AV_DEMO, "Mixed", "ns", "m")},
    {Loaded(Sealed(Doc(AV_DEMO, "App", "ns", "a"))), Doc(AV_DEMO, "Group", "ns", "g")},
    {Doc(AV_B, "Gadget", "ns", "g"), Doc(AV_CORE, "ConfigMap", "ns", "c")},
    {Doc(AV_DEMO, "Spawner", "ns", "sp")},
    {Doc(AV_DEMO, "Spawner", Undef, "sp")},
    {Doc(AV_A, "WebApp", "ns", "w"), Doc(AV_A, "Other", "ns", "o")},
    {Doc(AV_A, "Other", "ns", "o"), Doc(AV_A, "Shared", "ns", "sh")},
    {Doc(AV_DEMO, "Outer", "ns", "out")} }

\* Upper bound on the promises one root document causes: its emit
\* invocations (root, children, re-entrant) and the package load it may start.
\* Mixed never ends and ConfigMap is counted twice, which keeps the executions
\* with many of them out.
EmitDemand(d) ==
  LET ld == IF resolvePackageNameFromApiVersion(
                 withPackageMapping(<<>>, DefaultApiVersionFormat, DefaultPackageFormat),
                 d.apiVersion) = None THEN 0 ELSE 1
  IN ld + (CASE d.kind = "Thing" -> 3
             [] d.kind = "Spawner" -> 2
             [] d.kind = "WebApp" -> 2
             [] d.kind = "Twin" -> 2
             [] d.kind = "Mixed" -> 3
             [] d.kind = "ConfigMap" -> 2
             [] d.kind = "App" -> 4
             [] d.kind = "Group" -> 2
             [] d.kind = "Outer" -> 3
             [] OTHER -> 1)


\* ------------------------------------------------------------------ state
VARIABLES
  heap,              \* object store: object identity -> document
  mods,              \* Module objects
  modules,           \* Gin.modules: references into mods, in search order
  packageMappings,   \* Gin.packageMappings
  pendingPackages,   \* Gin.pendingPackages: load promises
  pendingEmits,      \* Gin.pendingEmits: emission promises
  emittedResources,  \* Gin.emittedResources: locators emitted so far
  sink,              \* Gin.sink: the installed Sink and what it accepted
  warnings,          \* Gin.warnings
  loads,             \* the promises created by withPackage
  em,                \* the promises created by emit, with their position
  run,               \* position of run() and of its callback
  acceptCalls,       \* every sink.accept call so far, by emission, in call order
  options,           \* Gin.options: package name -> options record
  menu,              \* the documents the callback emits
  util,              \* a value on its way through replaceValues / dropUndefined
  cfg                \* the configuration calls made so far and the last lookup

vars == <<heap, mods, modules, packageMappings, pendingPackages, pendingEmits,
          emittedResources, sink, warnings, loads, em, run, acceptCalls, options,
          menu, util, cfg>>

\* The engine as one value, so that the methods can be written as functions
\* from engine state to engine state.
S ==
  [heap |-> heap, mods |-> mods, modules |-> modules,
   packageMappings |-> packageMappings, pendingPackages |-> pendingPackages,
   pendingEmits |-> pendingEmits, emittedResources |-> emittedResources,
   sink |-> sink, warnings |-> warnings, loads |-> loads, em |-> em, run |-> run,
   acceptCalls |-> acceptCalls, options |-> options]

CommitEngine(s) ==
  /\ heap' = s.heap
  /\ mods' = s.mods
  /\ modules' = s.modules
  /\ packageMappings' = s.packageMappings
  /\ pendingPackages' = s.pendingPackages
  /\ pendingEmits' = s.pendingEmits
  /\ emittedResources' = s.emittedResources
  /\ sink' = s.sink
  /\ warnings' = s.warnings
  /\ loads' = s.loads
  /\ em' = s.em
  /\ run' = s.run
  /\ acceptCalls' = s.acceptCalls
  /\ options' = s.options

\* the engine's next state, computed once
Commit(s) == \E t \in {s} : CommitEngine(t) /\ UNCHANGED <<menu, util, cfg>>

BUILTIN == 1   \* Gin.module, the "<builtin>" Module

\* A || B on members that are None or Some(truthy value)
Or(a, b) == IF a # None THEN a ELSE b

\* ------------------------------------------------------------ utils.ts
\* deepClone returning its argument: no copy is taken
deepCloneAliased(h, id) == [heap |-> h, id |-> id]

\* structuredClone + restorePrototypes: a new object with the same content.
deepClone(h, id) == [heap |-> Append(h, h[id]), id |-> Len(h) + 1]

\* JSON.stringify(finalResource.gin || {}), kept as the record it encodes
\* (undefined members are left out by JSON.stringify).
Stringify(g) == [k \in {x \in DOMAIN g : g[x] # None} |-> g[k][1]]

\* The document handed to the sink: a copy of the resource (replaceValues and
\* dropUndefined build new objects) carrying the metadata annotation.
FinalResource(d) ==
  [d EXCEPT !.data = dropUndefined(replaceValues(@)),
            !.gin = GinOrEmpty(@), !.annotation = Some(Stringify(GinOrEmpty(d.gin)[1]))]

\* ------------------------------------------------------- promise helpers
Resolve(s, e) == [s EXCEPT !.em[e].pc = "settled", !.em[e].result = "resolved"]

Reject(s, e, err) ==
  [s EXCEPT !.em[e].pc = "settled", !.em[e].result = "rejected", !.em[e].error = err]

\* an await that does not wait
SettledAlways(s, e) == TRUE

Settled(s, e) == s.em[e].result # "pending"

DupWarning(loc) == [kind |-> "duplicate", locator |-> loc]

\* ------------------------------------------------------------- Gin.emit
\* emit replacing the SecretValues at once, in its clone
emitUnwrapped(s, obj, from, parent) ==
  LET c == deepClone(s.heap, obj)
      r == c.id
      h1 == [c.heap EXCEPT ![r].gin = [GinOrEmpty(@) EXCEPT ![1].emittedFrom = Some(from)],
                            ![r].data = replaceValues(@)]
      loc == Locator(h1[r])
      w1 == IF loc \in s.emittedResources
            THEN Append(s.warnings, DupWarning(loc)) ELSE s.warnings
      frame == [run |-> s.run.no, parent |-> parent, arg |-> obj,
                argSnap |-> s.heap[obj], res |-> r, locator |-> loc,
                pc |-> "ready", autoLoad |-> TRUE, wait |-> s.pendingPackages,
                adapter |-> Undef, out |-> <<>>, idx |-> 0, child |-> 0,
                result |-> "pending", error |-> Undef,
                validated |-> 0, generated |-> 0, accepted |-> 0,
                finds |-> 0, started |-> 0, warned |-> 0,
                seenV |-> None, seenG |-> None]
  IN [s EXCEPT !.heap = h1, !.warnings = w1,
               !.emittedResources = @ \cup {loc},
               !.em = Append(@, frame),
               !.pendingEmits = Append(@, Len(s.em) + 1)]

\* The synchronous part of emit: clone, stamp, duplicate check, and the
\* async body up to its first suspension (`await this.ready` in findAdapter,
\* whose Promise.all takes the pendingPackages of that moment).
emit(s0, obj, from, parent) == With(s0, LAMBDA s :
  LET c == deepClone(s.heap, obj)
      r == c.id
      h1 == [c.heap EXCEPT ![r].gin = [GinOrEmpty(@) EXCEPT ![1].emittedFrom = Some(from)]]
      loc == Locator(h1[r])
      w1 == IF loc \in s.emittedResources
            THEN Append(s.warnings, DupWarning(loc)) ELSE s.warnings
      frame == [run |-> s.run.no, parent |-> parent, arg |-> obj,
                argSnap |-> s.heap[obj], res |-> r, locator |-> loc,
                pc |-> "ready", autoLoad |-> TRUE, wait |-> s.pendingPackages,
                adapter |-> Undef, out |-> <<>>, idx |-> 0, child |-> 0,
                result |-> "pending", error |-> Undef,
                validated |-> 0, generated |-> 0, accepted |-> 0,
                finds |-> 0, started |-> 0, warned |-> 0,
                seenV |-> None, seenG |-> None]
  IN [s EXCEPT !.heap = h1, !.warnings = w1,
               !.emittedResources = @ \cup {loc},
               !.em = Append(@, frame),
               !.pendingEmits = Append(@, Len(s.em) + 1)])

\* ------------------------------------------- Gin.withOptions / getOptions
\* an options record; its pkg is a package name, the empty name being falsy
Options(pkg, value) == [pkg |-> pkg, value |-> value]

\* withOptions: throws on a falsy pkg, else this.options.set(options.pkg, options)
withOptions(opts, o) == IF o.pkg = <<>> THEN opts ELSE MapSet(opts, o.pkg, o)

\* getOptions: a leading `jsr:` is cut off, then this.options.get(pkg)
getOptions(opts, pkg) ==
  LET key == IF pkg # <<>> /\ Head(pkg) = "jsr:" THEN Tail(pkg) ELSE pkg
  IN IF key \in DOMAIN opts THEN Some(opts[key]) ELSE None

\* ------------------------------------------------------ Gin.withPackage
\* `options` is what the factory was called with, `registered` the options
\* registry at that moment
withPackage(s, pkg) ==
  [s EXCEPT !.loads = Append(@, [pkg |-> pkg, run |-> s.run.no, state |-> "importing",
                                 options |-> None, registered |-> EmptyMap]),
            !.pendingPackages = Append(@, Len(s.loads) + 1)]

\* this.modules.push(module)
PushModule(s, m) ==
  [s EXCEPT !.mods = Append(@, m), !.modules = Append(@, Len(s.mods) + 1)]

\* import() settles; the then-callback runs up to `await pkg.default(options)`
importSettle(s, l) ==
  LET x == PackageExport(s.loads[l].pkg)
  IN CASE x.type = "function" ->
            [s EXCEPT !.loads[l].state = "factory",
                      !.loads[l].options = getOptions(s.options, s.loads[l].pkg),
                      !.loads[l].registered = s.options]
       [] x.type = "module" ->
            [PushModule(s, x.module[1]) EXCEPT !.loads[l].state = "fulfilled"]
       [] OTHER -> [s EXCEPT !.loads[l].state = "rejected"]

\* the factory's result pushed without the Module.isModule check
factorySettleUnchecked(s, l) ==
  [PushModule(s, NewModule(s.loads[l].pkg)) EXCEPT !.loads[l].state = "fulfilled"]

\* the factory's result arrives: Module.isModule check, modules.push
factorySettle(s, l) ==
  LET x == PackageExport(s.loads[l].pkg)
  IN IF x.module # None
     THEN [PushModule(s, x.module[1]) EXCEPT !.loads[l].state = "fulfilled"]
     ELSE [s EXCEPT !.loads[l].state = "rejected"]

\* --------------------------------------------------- Gin.ready (getter)
ReadyRejected(s, e) ==
  \E i \in DOMAIN s.em[e].wait : s.loads[s.em[e].wait[i]].state = "rejected"

ReadyFulfilled(s, e) ==
  \A i \in DOMAIN s.em[e].wait : s.loads[s.em[e].wait[i]].state = "fulfilled"

\* Promise.all(snapshot) settles; on success pendingPackages is replaced by [].
readySettle(s, e) ==
  IF ReadyRejected(s, e) THEN Reject(s, e, "load")
  ELSE [s EXCEPT !.pendingPackages = <<>>, !.em[e].pc = "find"]


\* ------------------------------------------- Gin.findAdapter / processOnce
TagOf(d) == [apiVersion |-> d.apiVersion, kind |-> d.kind]

\* the search returning the last module that has a generator
FindModuleLast(s, tag) ==
  LET hits == {i \in DOMAIN s.modules : hasAdapter(s.mods[s.modules[i]], tag)}
  IN IF hits = {} THEN 0 ELSE Max(hits)

\* this.modules.find((m) => m.hasAdapter(resource)): index of the first hit, or 0
FindModule(s, tag) ==
  LET hits == {i \in DOMAIN s.modules : hasAdapter(s.mods[s.modules[i]], tag)}
  IN IF hits = {} THEN 0 ELSE Min(hits)

NoAdapterWarning(d, pkg) ==
  [kind |-> "no-adapter", locator |-> Locator(d), pkg |-> pkg]

\* processOnce returning [resource] without a word
noAdapterSilent(s, e) == [s EXCEPT !.em[e].out = <<s.em[e].res>>, !.em[e].pc = "accept"]

\* processOnce when findAdapter returned undefined: warn if the apiVersion
\* maps to a package, return [resource].  `warned` counts the warnings pushed
\* for the emission.
noAdapter(s0, e) == With(s0, LAMBDA s :
  With(resolvePackageNameFromApiVersion(s.packageMappings, s.heap[s.em[e].res].apiVersion),
       LAMBDA pkg :
  LET r == s.em[e].res
      d == s.heap[r]
      note == [kind |-> "Warning", message |-> NoAdapterWarning(d, pkg)]
      s1 == IF pkg = None THEN s
            ELSE [s EXCEPT !.warnings = Append(@, NoAdapterWarning(d, pkg)),
                           !.em[e].warned = @ + 1,
                           !.heap[r].gin[1].notes = Some(Append(Or(@, Some(<<>>))[1], note))]
  IN [s1 EXCEPT !.em[e].out = <<r>>, !.em[e].pc = "accept"]))

\* processOnce with an adapter: children = [], then adapter.validate is called
callValidate(s, e, a) ==
  [s EXCEPT !.heap[s.em[e].res].gin[1].children = Some(<<>>),
            !.em[e].adapter = a, !.em[e].validated = @ + 1,
            !.em[e].seenV = Some(s.heap[s.em[e].res].data),
            !.em[e].pc = "validate"]

\* findAdapter after `await this.ready`
\* findAdapter retrying with autoLoad left on
findAdapterAlwaysAuto(s0, e) ==
  LET s == [s0 EXCEPT !.em[e].finds = @ + 1]
      f == s.em[e]
      d == s.heap[f.res]
      i == FindModule(s, TagOf(d))
      pkg == resolvePackageNameFromApiVersion(s.packageMappings, d.apiVersion)
  IN IF i = 0
     THEN IF pkg = None THEN noAdapter(s, e)
          ELSE LET s1 == withPackage(s, pkg)
               IN [s1 EXCEPT !.em[e].pc = "ready", !.em[e].started = @ + 1,
                             !.em[e].wait = s1.pendingPackages]
     ELSE callValidate(s, e, getAdapter(s.mods[s.modules[i]], TagOf(d)))

\* `finds` counts the lookups in this.modules made for the emission,
\* `started` the withPackage calls made for it
findAdapter(s0, e) == With([s0 EXCEPT !.em[e].finds = @ + 1], LAMBDA s :
  LET f == s.em[e]
      d == s.heap[f.res]
      i == FindModule(s, TagOf(d))
  IN IF i = 0 /\ f.autoLoad
     THEN With(resolvePackageNameFromApiVersion(s.packageMappings, d.apiVersion), LAMBDA pkg :
            IF pkg = None THEN noAdapter(s, e)
            ELSE With(withPackage(s, pkg), LAMBDA s1 :
                   [s1 EXCEPT !.em[e].autoLoad = FALSE, !.em[e].pc = "ready",
                              !.em[e].started = @ + 1,
                              !.em[e].wait = s1.pendingPackages]))
     ELSE IF i # 0 THEN callValidate(s, e, getAdapter(s.mods[s.modules[i]], TagOf(d)))
     ELSE noAdapter(s, e))

\* the gin.emit calls generate() makes without awaiting them
RECURSIVE SpawnAll(_, _)
SpawnAll(s, docs) ==
  IF docs = <<>> THEN s
  ELSE With([s EXCEPT !.heap = Append(@, Head(docs))], LAMBDA s1 :
         SpawnAll(emit(s1, Len(s1.heap), "adapter", 0), Tail(docs)))

\* validate's outcome ignored: generate is called whatever validate said
validateSettleUnchecked(s, e) ==
  LET s1 == [s EXCEPT !.em[e].generated = @ + 1,
                      !.em[e].seenG = Some(s.heap[s.em[e].res].data),
                      !.em[e].pc = "generate"]
  IN SpawnAll(s1, AdapterSpawns(s.em[e].adapter, s.heap[s.em[e].res]))

\* adapter.validate settles; on success adapter.generate is called
validateSettle(s, e) ==
  LET f == s.em[e]
      d == s.heap[f.res]
  IN IF ~AdapterValidate(f.adapter, d) THEN Reject(s, e, "validation")
     ELSE LET s1 == [s EXCEPT !.em[e].generated = @ + 1, !.em[e].seenG = Some(d.data),
                              !.em[e].pc = "generate"]
          IN SpawnAll(s1, AdapterSpawns(f.adapter, d))

\* the .map() over generate's result: stamp parent on every output that is
\* not the input object and record it in the input's children
RECURSIVE StampOutputs(_, _, _, _)
StampOutputs(s0, e, outs, acc) == With(s0, LAMBDA s :
  IF outs = <<>> THEN [s EXCEPT !.em[e].out = acc, !.em[e].pc = "accept"]
  ELSE LET r == s.em[e].res
           o == Head(outs)
       IN IF o.input THEN StampOutputs(s, e, Tail(outs), Append(acc, r))
          ELSE LET n == Len(s.heap) + 1
                   child == [o.doc[1] EXCEPT !.gin = [GinOrEmpty(@) EXCEPT
                                                 ![1].parent = Some(Locator(s.heap[r]))]]
                   s1 == [s EXCEPT !.heap = [Append(@, child) EXCEPT
                            ![r].gin[1].children = IF @ = None THEN @
                                                   ELSE Some(Append(@[1], Locator(child)))]]
               IN StampOutputs(s1, e, Tail(outs), Append(acc, n)))

\* generate's outputs taken as they are: no parent stamped, no children
\* recorded
generateSettleUnstamped(s, e) ==
  LET r == s.em[e].res
      outs == AdapterGenerate(s.em[e].adapter, s.heap[r])
      n == Len(s.heap)
  IN [s EXCEPT !.heap = @ \o [i \in DOMAIN outs |->
                                IF outs[i].input THEN s.heap[r] ELSE outs[i].doc[1]],
               !.em[e].out = [i \in DOMAIN outs |-> IF outs[i].input THEN r ELSE n + i],
               !.em[e].pc = "accept"]

\* adapter.generate settles
generateSettle(s, e) ==
  StampOutputs(s, e, AdapterGenerate(s.em[e].adapter, s.heap[s.em[e].res]), <<>>)

\* ------------------------------------------------ Gin.emit (async body)
\* the loop handing down the parent's own provenance
startChildFromParent(s, e, i) ==
  LET f == s.em[e]
      g == s.heap[f.res].gin[1]
      c == f.out[i]
      s1 == [s EXCEPT !.heap[c].gin =
               [GinOrEmpty(@) EXCEPT ![1].loadedFromRoot = g.loadedFrom,
                                     ![1].emittedFromRoot = g.emittedFrom]]
      s2 == emit(s1, c, "gin.ts", e)
  IN [s2 EXCEPT !.em[e].pc = "children", !.em[e].idx = i, !.em[e].child = Len(s2.em)]

\* one iteration of the loop over children, up to `await this.emit(res)`
startChild(s0, e, i) == With(s0, LAMBDA s :
  LET f == s.em[e]
      g == s.heap[f.res].gin[1]
      c == f.out[i]
      s1 == [s EXCEPT !.heap[c].gin =
               [GinOrEmpty(@) EXCEPT ![1].loadedFromRoot = Or(g.loadedFromRoot, g.loadedFrom),
                                     ![1].emittedFromRoot = Or(g.emittedFromRoot, g.emittedFrom)]]
  IN With(emit(s1, c, "gin.ts", e), LAMBDA s2 :
       [s2 EXCEPT !.em[e].pc = "children", !.em[e].idx = i, !.em[e].child = Len(s2.em)]))

\* a new StdoutSink: its accept prints and returns a resolved promise.  The
\* sink of withSink may be one whose accept completes later (`async`).
StdoutSink == [closed |-> FALSE, accepted |-> <<>>, async |-> FALSE]

\* the finalized resource handed to the sink twice
SinkAcceptTwice(s, e) ==
  LET x == [doc |-> FinalResource(s.heap[s.em[e].res]), em |-> e,
            closed |-> s.sink.closed, done |-> ~s.sink.async]
  IN [s EXCEPT !.sink.accepted = @ \o <<x, x>>,
               !.acceptCalls = @ \o <<e, e>>,
               !.em[e].accepted = @ + 2]

\* sink.accept(finalResource): not awaited.  `done` tells whether the call
\* has completed.
SinkAccept(s, e) ==
  [s EXCEPT !.sink.accepted = Append(@, [doc |-> FinalResource(s.heap[s.em[e].res]),
                                         em |-> e, closed |-> s.sink.closed,
                                         done |-> ~s.sink.async]),
            !.acceptCalls = Append(@, e),
            !.em[e].accepted = @ + 1]

\* the emit body without the same-locator check on a single output
acceptStepUnchecked(s, e) ==
  LET s1 == SinkAccept(s, e)
      f == s1.em[e]
  IN IF Len(f.out) = 1 /\ f.out[1] = f.res THEN Resolve(s1, e)
     ELSE IF f.out = <<>> THEN Resolve(s1, e)
     ELSE startChild(s1, e, 1)

\* the emit body starting its loop at the last output instead of the first
acceptStepLastFirst(s, e) ==
  LET s1 == SinkAccept(s, e)
      f == s1.em[e]
  IN IF Len(f.out) = 1 /\ f.out[1] = f.res THEN Resolve(s1, e)
     ELSE IF Len(f.out) = 1 /\ f.locator = Locator(s1.heap[f.out[1]])
          THEN Reject(s1, e, "generator-bug")
     ELSE IF f.out = <<>> THEN Resolve(s1, e)
     ELSE startChild(s1, e, Len(f.out))

\* the emit body checking the output before it sends the document
acceptStepCheckFirst(s, e) ==
  LET f == s.em[e]
  IN IF Len(f.out) = 1 /\ f.out[1] # f.res /\ f.locator = Locator(s.heap[f.out[1]])
     THEN Reject(s, e, "generator-bug")
     ELSE LET s1 == SinkAccept(s, e)
          IN IF Len(f.out) = 1 /\ f.out[1] = f.res THEN Resolve(s1, e)
             ELSE IF f.out = <<>> THEN Resolve(s1, e)
             ELSE startChild(s1, e, 1)

\* processOnce returned: finalize, send to the sink, check the output, start
\* the first child
acceptStep(s, e) == With(SinkAccept(s, e), LAMBDA s1 :
  LET f == s1.em[e]
  IN IF Len(f.out) = 1 /\ f.out[1] = f.res THEN Resolve(s1, e)
     ELSE IF Len(f.out) = 1 /\ f.locator = Locator(s1.heap[f.out[1]])
          THEN Reject(s1, e, "generator-bug")
     ELSE IF f.out = <<>> THEN Resolve(s1, e)
     ELSE startChild(s1, e, 1))

\* an `await this.emit(res)` that never returns
childSettleStuck(s, e) == s

\* the loop going on to the next child whatever became of the last one
childSettleIgnoring(s, e) ==
  LET f == s.em[e]
  IN IF f.idx < Len(f.out) THEN startChild(s, e, f.idx + 1)
     ELSE Resolve(s, e)

\* `await this.emit(res)` settles
childSettle(s, e) ==
  LET f == s.em[e]
  IN IF s.em[f.child].result = "rejected" THEN Reject(s, e, s.em[f.child].error)
     ELSE IF f.idx < Len(f.out) THEN startChild(s, e, f.idx + 1)
     ELSE Resolve(s, e)


\* --------------------------------------------------------------- Gin.run
\* run(): fresh sink, warnings and pendingEmits reset, callback invoked
runStart(s) ==
  [s EXCEPT !.sink = StdoutSink,
            !.warnings = <<>>,
            !.pendingEmits = <<>>,
            !.run = [@ EXCEPT !.pc = "callback", !.no = @ + 1, !.result = "pending",
                              !.cbThrew = FALSE, !.cbEmits = 0, !.cbWait = 0,
                              !.doneWait = <<>>, !.printed = FALSE]]

\* finally: sink.close(), then `await this.done` whose Promise.all takes the
\* pendingEmits of that moment
runFinally(s) ==
  [s EXCEPT !.sink.closed = TRUE,
            !.run.doneWait = s.pendingEmits,
            !.run.pc = "done"]

DoneRejected(s) == \E i \in DOMAIN s.run.doneWait : s.em[s.run.doneWait[i]].result = "rejected"

DoneFulfilled(s) == \A i \in DOMAIN s.run.doneWait : s.em[s.run.doneWait[i]].result = "resolved"

\* Promise.all(pendingEmits) settles: on rejection the finally block is left
\* with that error, otherwise pendingEmits is replaced by []
doneSettle(s) ==
  IF DoneRejected(s)
  THEN [s EXCEPT !.run.pc = "settled", !.run.result = "rejected"]
  ELSE [s EXCEPT !.pendingEmits = <<>>, !.run.pc = "print"]

\* printWarnings(), then run's promise settles: rejected if the callback threw
printWarnings(s) ==
  [s EXCEPT !.run.printed = TRUE,
            !.run.pc = "settled",
            !.run.result = IF s.run.cbThrew THEN "rejected" ELSE "resolved"]

\* ------------------------------------------------------------ the callback
\* gin.emit(d) issued by the callback, awaited or not
callbackEmit(s, d, awaited) ==
  LET s1 == [s EXCEPT !.heap = Append(@, d)]
      s2 == emit(s1, Len(s.heap) + 1, "callback", 0)
  IN [s2 EXCEPT !.run.cbEmits = @ + 1,
                !.run.demand = @ + EmitDemand(d),
                !.run.cbWait = IF awaited THEN Len(s2.em) ELSE 0]

\* ----------------------------------------------------------------- Init
\* the engine after `new Gin(mode)`: only in mode "default" is the builtin
\* module put in the module list and the default mapping registered
Constructed(mode) ==
  /\ heap = <<>>
  /\ mods = <<NewModule(<<"<builtin>">>)>>
  /\ modules = IF mode = "default" THEN <<BUILTIN>> ELSE <<>>
  /\ packageMappings =
       IF mode = "default"
       THEN withPackageMapping(<<>>, DefaultApiVersionFormat, DefaultPackageFormat)
       ELSE <<>>
  /\ pendingPackages = <<>>
  /\ pendingEmits = <<>>
  /\ emittedResources = {}
  /\ sink = StdoutSink
  /\ warnings = <<>>
  /\ loads = <<>>
  /\ em = <<>>
  /\ run = [pc |-> "setup", no |-> 0, result |-> "pending", cbThrew |-> FALSE,
            cbEmits |-> 0, cbWait |-> 0, doneWait |-> <<>>, printed |-> FALSE,
            setup |-> 0, demand |-> 0]
  /\ acceptCalls = <<>>
  /\ options = EmptyMap

\* the engine after `new Gin()`
NewGin == Constructed("default")

\* no value under way, no configuration call made yet
Idle ==
  /\ util = [pc |-> "idle", val |-> None, mid |-> None, out |-> None]
  /\ cfg = [regs |-> <<>>, q |-> None]

Init ==
  /\ NewGin
  /\ menu \in Menus
  /\ Idle

\* -------------------------------------------------------------- actions
\* gin.withResourceAdapter(tag, adapter) for the generators of the pipeline
WithResourceAdapter ==
  /\ run.pc = "setup"
  /\ run.setup < Len(BuiltinAdapters)
  /\ LET b == BuiltinAdapters[run.setup + 1]
     IN Commit([S EXCEPT !.mods[BUILTIN] = withAdapter(@, b[1], b[2]),
                         !.run.setup = @ + 1])

RunStart ==
  /\ \/ run.pc = "setup" /\ run.setup = Len(BuiltinAdapters)
     \/ run.pc = "settled"
  /\ run.no < MaxRuns
  /\ Commit(runStart(S))

CallbackEmit ==
  /\ run.pc = "callback"
  /\ run.cbWait = 0
  /\ run.cbEmits < MaxRootEmits
  /\ \E d \in menu, awaited \in BOOLEAN :
       /\ run.demand + EmitDemand(d) <= MaxPromises
       /\ Commit(callbackEmit(S, d, awaited))

\* the emission the callback awaits has settled
CallbackResume ==
  /\ run.pc = "callback"
  /\ run.cbWait # 0
  /\ Settled(S, run.cbWait)
  /\ IF em[run.cbWait].result = "rejected"
     THEN Commit([S EXCEPT !.run.cbThrew = TRUE, !.run.cbWait = 0, !.run.pc = "finally"])
     ELSE Commit([S EXCEPT !.run.cbWait = 0])

CallbackReturn ==
  /\ run.pc = "callback"
  /\ run.cbWait = 0
  /\ Commit([S EXCEPT !.run.pc = "finally"])

\* the callback fails with an error of its own
CallbackThrow ==
  /\ run.pc = "callback"
  /\ run.cbWait = 0
  /\ Commit([S EXCEPT !.run.cbThrew = TRUE, !.run.pc = "finally"])

RunFinally ==
  /\ run.pc = "finally"
  /\ Commit(runFinally(S))

DoneSettle ==
  /\ run.pc = "done"
  /\ DoneRejected(S) \/ DoneFulfilled(S)
  /\ Commit(doneSettle(S))

PrintWarnings ==
  /\ run.pc = "print"
  /\ Commit(printWarnings(S))

ImportSettle ==
  \E l \in DOMAIN loads :
    /\ loads[l].state = "importing"
    /\ Commit(importSettle(S, l))

FactorySettle ==
  \E l \in DOMAIN loads :
    /\ loads[l].state = "factory"
    /\ Commit(factorySettle(S, l))

ReadySettle ==
  \E e \in DOMAIN em :
    /\ em[e].pc = "ready"
    /\ ReadyRejected(S, e) \/ ReadyFulfilled(S, e)
    /\ Commit(readySettle(S, e))

FindAdapter ==
  \E e \in DOMAIN em :
    /\ em[e].pc = "find"
    /\ Commit(findAdapter(S, e))

ValidateSettle ==
  \E e \in DOMAIN em :
    /\ em[e].pc = "validate"
    /\ Commit(validateSettle(S, e))

GenerateSettle ==
  \E e \in DOMAIN em :
    /\ em[e].pc = "generate"
    /\ Commit(generateSettle(S, e))

AcceptStep ==
  \E e \in DOMAIN em :
    /\ em[e].pc = "accept"
    /\ \E t \in {acceptStep(S, e)} :
         Len(t.em) + Len(loads) <= MaxPromises /\ Commit(t)

ChildSettle ==
  \E e \in DOMAIN em :
    /\ em[e].pc = "children"
    /\ Settled(S, em[e].child)
    /\ \E t \in {childSettle(S, e)} :
         Len(t.em) + Len(loads) <= MaxPromises /\ Commit(t)

Next ==
  \/ WithResourceAdapter
  \/ RunStart
  \/ CallbackEmit
  \/ CallbackResume
  \/ CallbackReturn
  \/ CallbackThrow
  \/ RunFinally
  \/ DoneSettle
  \/ PrintWarnings
  \/ ImportSettle
  \/ FactorySettle
  \/ ReadySettle
  \/ FindAdapter
  \/ ValidateSettle
  \/ GenerateSettle
  \/ AcceptStep
  \/ ChildSettle

Spec == Init /\ [][Next]_vars


\* ------------------------------------------------------------ properties
InFlight(l) == loads[l].state \in {"importing", "factory"}

\* emit invocations registered during run r with locator loc
EmitCount(loc, r) == Cardinality({e \in DOMAIN em : em[e].run = r /\ em[e].locator = loc})

\* duplicate-emission warnings for loc in the current warning list
DupCount(loc) ==
  Cardinality({i \in DOMAIN warnings :
                 warnings[i].kind = "duplicate" /\ warnings[i].locator = loc})

\* C1: within one pipeline run a package identifier is loaded at most once:
\* no two withPackage calls of the same run name the same package.
C1_LoadOncePerRun ==
  \A l1, l2 \in DOMAIN loads :
    (loads[l1].pkg = loads[l2].pkg /\ loads[l1].run = loads[l2].run) => l1 = l2

\* C2: at every point at most one load of a given package identifier is in
\* flight (concurrent discoveries share one load).
C2_SingleInFlightLoad ==
  \A l1, l2 \in DOMAIN loads :
    (InFlight(l1) /\ InFlight(l2) /\ loads[l1].pkg = loads[l2].pkg) => l1 = l2

\* C3: the sink never accepts a document after run() has closed it.
C3_NoAcceptAfterClose ==
  \A i \in DOMAIN sink.accepted : ~sink.accepted[i].closed

\* C4: when run's promise has settled, every emission registered during that
\* run has settled.
C4_RunIsBarrier ==
  run.pc = "settled" =>
    \A e \in DOMAIN em : em[e].run = run.no => em[e].result # "pending"

\* C5: whenever run's promise has settled, printWarnings has been executed.
C5_WarningsAlwaysPrinted ==
  run.pc = "settled" => run.printed

\* C6: run's promise is rejected exactly when the callback threw or an
\* emission registered during the run was rejected.
C6_RunNeverSwallows ==
  run.pc = "settled" =>
    (run.result = "rejected" <=>
       (run.cbThrew \/ \E e \in DOMAIN em : em[e].run = run.no /\ em[e].result = "rejected"))

\* C7: k emit calls with one locator in a run have produced exactly k-1
\* duplicate-emission warnings in that run's warning list.
C7_DupWarningsCount ==
  \A loc \in emittedResources :
    DupCount(loc) = IF EmitCount(loc, run.no) = 0 THEN 0 ELSE EmitCount(loc, run.no) - 1

\* C8: a duplicate-emission warning is only ever present for a locator that
\* was emitted at least twice in the current run.
C8_DupTableIsPerRun ==
  \A i \in DOMAIN warnings :
    warnings[i].kind = "duplicate" => EmitCount(warnings[i].locator, run.no) >= 2

\* C9: the object handed to emit is field-for-field what it was when emit was
\* called, for every emission and at every later moment.
C9_CallerObjectUnchanged ==
  \A e \in DOMAIN em : heap[em[e].arg] = em[e].argSnap

\* an expansion that was delivered and a validation failure, both with the
\* engine's clone stamped and the caller's object left without `gin`
C9_Witness ==
  \E e1, e2 \in DOMAIN em :
    /\ em[e1].result = "resolved" /\ em[e1].accepted = 1 /\ em[e1].generated = 1
    /\ em[e2].result = "rejected" /\ em[e2].error = "validation"
    /\ \A e \in {e1, e2} :
         /\ em[e].parent = 0
         /\ heap[em[e].arg].gin = None
         /\ heap[em[e].res].gin # None
         /\ heap[em[e].res].gin[1].children # None

ValidationFailed(e) ==
  /\ em[e].validated > 0
  /\ em[e].pc # "validate"
  /\ ~AdapterValidate(em[e].adapter, heap[em[e].res])

\* C10: once validate has failed for a document, its emission is rejected
\* with the validation error, generate was not invoked, nothing was sent to
\* the sink, no child was emitted and no warning stands in for the error.
C10_ValidationAborts ==
  \A e \in DOMAIN em :
    ValidationFailed(e) =>
      /\ em[e].result = "rejected" /\ em[e].error = "validation"
      /\ em[e].generated = 0
      /\ em[e].accepted = 0
      /\ \A i \in DOMAIN sink.accepted : sink.accepted[i].em # e
      /\ \A c \in DOMAIN em : em[c].parent # e
      /\ \A i \in DOMAIN warnings :
           warnings[i].kind = "duplicate" \/ warnings[i].locator # em[e].locator

\* a root emission rejected by validate while another document went through
C10_Witness ==
  \E e, o \in DOMAIN em :
    /\ ValidationFailed(e) /\ em[e].result = "rejected"
    /\ em[o].result = "resolved" /\ em[o].accepted = 1

\* generate has returned exactly one document, a different object from the
\* input with the input's locator
SameLocatorReturn(e) ==
  /\ em[e].generated = 1
  /\ Len(em[e].out) = 1
  /\ em[e].out[1] # em[e].res
  /\ Locator(heap[em[e].out[1]]) = em[e].locator

C12_InputIsTerminal ==
  \A e, c \in DOMAIN em : em[c].parent = e => em[c].arg # em[e].res

\* ---- the expansion tree of a document, from the generators alone
\* the generator the engine ends up with for a document: a registered one,
\* else the one of the package its apiVersion maps to
RegisteredAdapter(tag) ==
  LET hits == {i \in DOMAIN BuiltinAdapters : BuiltinAdapters[i][1] = tag}
  IN IF hits = {} THEN Undef ELSE BuiltinAdapters[Min(hits)][2]

AdapterOf(d) ==
  LET a == RegisteredAdapter(TagOf(d))
      pkg == resolvePackageNameFromApiVersion(
               withPackageMapping(<<>>, DefaultApiVersionFormat, DefaultPackageFormat),
               d.apiVersion)
  IN IF a # Undef THEN a
     ELSE IF pkg = None THEN Undef
     ELSE LET x == PackageExport(pkg)
          IN IF x.module # None /\ hasAdapter(x.module[1], TagOf(d))
             THEN getAdapter(x.module[1], TagOf(d)) ELSE Undef

\* locators in pre-order, depth first, of the tree emit(d) walks; `fuel`
\* cuts the walk of a tree that never ends
RECURSIVE PreOrder(_, _)
RECURSIVE PreOrderAll(_, _, _)
PreOrder(d, fuel) ==
  LET a == AdapterOf(d)
  IN IF fuel = 0 THEN <<>>
     ELSE IF a = Undef THEN <<Locator(d)>>
     ELSE IF ~AdapterValidate(a, d) THEN <<>>
     ELSE LET outs == AdapterGenerate(a, d)
          IN IF outs = <<Input>> THEN <<Locator(d)>>
             ELSE IF Len(outs) = 1 /\ Locator(outs[1].doc[1]) = Locator(d)
                  THEN <<Locator(d)>>
             ELSE <<Locator(d)>> \o PreOrderAll(d, outs, fuel - 1)

PreOrderAll(d, outs, fuel) ==
  IF outs = <<>> THEN <<>>
  ELSE PreOrder(IF Head(outs).input THEN d ELSE Head(outs).doc[1], fuel)
         \o PreOrderAll(d, Tail(outs), fuel)

\* the root emit call an emission descends from
RECURSIVE RootOf(_)
RootOf(e) == IF em[e].parent = 0 THEN e ELSE RootOf(em[e].parent)

Roots == {e \in DOMAIN em : em[e].parent = 0}

InTreeOf(r, e) == RootOf(e) = r

\* the sink.accept calls of root r's tree, in call order, as locators
AcceptedOf(r, calls) ==
  LET own == SelectSeq(calls, LAMBDA e : InTreeOf(r, e))
  IN [i \in DOMAIN own |-> em[own[i]].locator]

\* the documents root emit calls are made with: those of the callback and
\* those a generator hands to gin.emit
RootDocs ==
  LET m == UNION Menus
  IN m \cup UNION {{AdapterSpawns(AdapterOf(d), d)[i] :
                      i \in DOMAIN AdapterSpawns(AdapterOf(d), d)} : d \in m}

Walks == [d \in RootDocs |-> PreOrder(d, MaxPromises + 1)]

Expected(r) == Walks[heap[em[r].arg]]

IsPrefix(a, b) == Len(a) <= Len(b) /\ \A i \in DOMAIN a : a[i] = b[i]

\* C13: when one root emit was issued, the sink.accept calls are the
\* pre-order walk of its expansion tree (a prefix of it while the emission is
\* under way or after it failed, all of it once it resolved); and two resolved
\* root emissions of equal documents made the same sequence of calls.
C13_PreOrderSingleRoot ==
  /\ \A r \in Roots :
       Roots = {r} =>
         LET calls == AcceptedOf(r, acceptCalls)
             walk == Expected(r)
         IN /\ IsPrefix(calls, walk)
            /\ Len(calls) = Len(acceptCalls)
            /\ em[r].result = "resolved" => calls = walk
  /\ LET done == {r \in Roots : em[r].result = "resolved"}
         calls == [r \in done |-> AcceptedOf(r, acceptCalls)]
     IN \A r1, r2 \in done :
          (r1 < r2 /\ heap[em[r1].arg] = heap[em[r2].arg]) => calls[r1] = calls[r2]

\* a single root whose tree of depth two was delivered: four calls
C13_Witness ==
  \E r \in Roots :
    /\ Roots = {r}
    /\ em[r].result = "resolved"
    /\ Len(acceptCalls) = 4
    /\ \E c, g \in DOMAIN em : em[c].parent = r /\ em[g].parent = c /\ em[g].accepted = 1

GinOf(e) == heap[em[e].res].gin[1]

RECURSIVE NewLocators(_)
NewLocators(outs) ==
  IF outs = <<>> THEN <<>>
  ELSE (IF Head(outs).input THEN <<>> ELSE <<Locator(Head(outs).doc[1])>>)
         \o NewLocators(Tail(outs))

\* C16: at the sink, a document a generator produced names the generating
\* document's locator as parent, and a document that went through a generator
\* lists the locators of its new outputs, in output order, as children; the
\* annotation mirrors the record.
C16_ParentChildAtSink ==
  \A i \in DOMAIN sink.accepted :
    LET e == sink.accepted[i].em
        d == sink.accepted[i].doc
        p == em[e].parent
    IN /\ (p # 0 /\ em[e].arg # em[p].res) => d.gin[1].parent = Some(em[p].locator)
       /\ em[e].generated = 1 =>
            d.gin[1].children = Some(NewLocators(AdapterGenerate(em[e].adapter, heap[em[e].res])))
       /\ d.annotation = Some(Stringify(d.gin[1]))

\* the scenario generator: Thing and its two Sub documents at the sink
C16_Witness ==
  \E i, j, k \in DOMAIN sink.accepted :
    LET t == sink.accepted[i].doc
    IN /\ i < j /\ j < k
       /\ t.kind = "Thing" /\ Len(t.gin[1].children[1]) = 2
       /\ \A x \in {j, k} :
            /\ sink.accepted[x].doc.kind = "Sub"
            /\ sink.accepted[x].doc.gin[1].parent = Some(Locator(t))
            /\ em[sink.accepted[x].em].parent = sink.accepted[i].em

\* ---------------------------------- replaceValues / dropUndefined applied
\* the documents and lists handed to the functions, nested up to depth n
Inputs(n) == {v \in Level(n) : v.t \in {"arr", "obj"}}

engineVarsOnly == <<heap, mods, modules, packageMappings, pendingPackages, pendingEmits,
                    emittedResources, sink, warnings, loads, em, run, acceptCalls, options>>

engineVars == <<heap, mods, modules, packageMappings, pendingPackages, pendingEmits,
                emittedResources, sink, warnings, loads, em, run, acceptCalls, options,
                menu, cfg>>

UtilInit ==
  /\ NewGin
  /\ menu = {}
  /\ cfg = [regs |-> <<>>, q |-> None]
  /\ \E v \in Inputs(MaxDepth) : util = [pc |-> "input", val |-> v, mid |-> v, out |-> v]

\* emit: replaceValues(resource, ...) on the processed document
ReplaceValues ==
  /\ util.pc = "input"
  /\ util' = [util EXCEPT !.pc = "replaced", !.mid = replaceValues(util.val)]
  /\ UNCHANGED engineVars

\* emit: dropUndefined(...) of the replaced document gives finalResource
DropUndefined ==
  /\ util.pc = "replaced"
  /\ util' = [util EXCEPT !.pc = "final", !.out = dropUndefined(util.mid)]
  /\ UNCHANGED engineVars

\* dropUndefined called by itself on a value
DropUndefinedAlone ==
  /\ util.pc = "input"
  /\ util' = [util EXCEPT !.pc = "dropped", !.out = dropUndefined(util.val)]
  /\ UNCHANGED engineVars

UtilNext == ReplaceValues \/ DropUndefined \/ DropUndefinedAlone

UtilSpec == UtilInit /\ [][UtilNext]_vars

RECURSIVE HasSecret(_)
HasSecret(v) == isSecretValue(v) \/ \E i \in DOMAIN v.kids : HasSecret(v.kids[i].v)

RECURSIVE HasUndefined(_)
HasUndefined(v) == v.t = "undef" \/ \E i \in DOMAIN v.kids : HasUndefined(v.kids[i].v)

\* C17: the document given to the sink holds no SecretValue anywhere.
C17_NoWrapperAtSink ==
  util.pc = "final" => ~HasSecret(util.out)

\* what is left of a value when undefined entries are passed over: its
\* containers, keys and strings, in order
RECURSIVE Flatten(_)
RECURSIVE FlattenAll(_)
Flatten(v) ==
  CASE v.t = "str" -> <<v.s>>
    [] v.t = "undef" -> <<>>
    [] v.t = "arr" -> <<"[">> \o FlattenAll(v.kids) \o <<"]">>
    [] OTHER -> <<"{">> \o FlattenAll(v.kids) \o <<"}">>

FlattenAll(es) ==
  IF es = <<>> THEN <<>>
  ELSE (IF Head(es).v.t = "undef" THEN <<>> ELSE <<Head(es).k>> \o Flatten(Head(es).v))
         \o FlattenAll(Tail(es))

\* C18: the result of dropUndefined holds no undefined at any depth and keeps
\* every other entry, in order; so the document given to the sink, which is
\* dropUndefined of the replaced document, holds no undefined either.
C18_DropUndefinedPrunes ==
  /\ util.pc = "dropped" =>
       /\ ~HasUndefined(util.out)
       /\ Flatten(util.out) = Flatten(util.val)
       /\ ~HasUndefined(util.val) => util.out = util.val
  /\ util.pc = "final" =>
       /\ ~HasUndefined(util.out)
       /\ Flatten(util.out) = Flatten(util.mid)

\* undefined pruned two levels down, next to an entry that was kept
C18_Witness ==
  /\ util.pc = "dropped"
  /\ util.val = VObj(<<Entry("a", VArr(<<VObj(<<Entry("a", VUndef), Entry("b", VStr)>>), VUndef>>)),
                       Entry("b", VUndef)>>)
  /\ util.out = VObj(<<Entry("a", VArr(<<VObj(<<Entry("b", VStr)>>)>>))>>)

\* the sink.accept calls made by emission e
AcceptCount(e) == Cardinality({i \in DOMAIN acceptCalls : acceptCalls[i] = e})

SameContent(a, b) ==
  /\ a.apiVersion = b.apiVersion /\ a.kind = b.kind
  /\ a.namespace = b.namespace /\ a.name = b.name

\* C19: an emission of a document for which no generator is registered or
\* can be loaded, once settled, has resolved and has delivered the document
\* to the sink exactly once, equal to the input outside the provenance record
\* and its annotation.
C19_PassThroughIdentity ==
  \A e \in DOMAIN em :
    (AdapterOf(heap[em[e].arg]) = Undef /\ em[e].pc = "settled") =>
      /\ em[e].result = "resolved"
      /\ AcceptCount(e) = 1
      /\ \A i \in DOMAIN sink.accepted :
           sink.accepted[i].em = e => SameContent(sink.accepted[i].doc, heap[em[e].arg])

\* emission e waited for a package load that failed
LoadFailedFor(e) ==
  \E i \in DOMAIN em[e].wait : loads[em[e].wait[i]].state = "rejected"

\* C20: an emission whose automatic discovery load failed is not rejected:
\* once settled it has resolved, a warning stands for the failure and the
\* document was passed through to the sink.
C20_FailedDiscoveryIsWarning ==
  \A e \in DOMAIN em :
    (LoadFailedFor(e) /\ em[e].pc = "settled") =>
      /\ em[e].result = "resolved"
      /\ em[e].accepted = 1
      /\ \E w \in DOMAIN warnings :
           warnings[w].kind # "duplicate" /\ warnings[w].locator = em[e].locator

\* ------------------------------------- a Module under withAdapter calls
\* the (apiVersion, kind) pairs and generators registered and looked up
Tags == {[apiVersion |-> av, kind |-> k] : av \in {AV_DEMO, AV_A}, k \in {"Thing", "Other"}}

Generators == {"ThingAdapter", "CheckedAdapter"}

NotRegistered == {"error:apiVersion", "error:kind"}

ModuleInit == NewGin /\ menu = {} /\ Idle

\* gin.withResourceAdapter(tag, adapter): this.module.withAdapter(tag, adapter)
RegisterAdapter ==
  /\ Len(cfg.regs) < MaxRegs
  /\ \E tag \in Tags, a \in Generators :
       /\ CommitEngine([S EXCEPT !.mods[BUILTIN] = withAdapter(@, tag, a)])
       /\ cfg' = [regs |-> Append(cfg.regs, <<tag, a>>), q |-> None]
  /\ UNCHANGED <<menu, util>>

\* module.hasAdapter(tag) and module.getAdapter(tag) on the Module as it is
LookupAdapter ==
  /\ \E tag \in Tags :
       cfg' = [cfg EXCEPT !.q = Some([tag |-> tag,
                                      has |-> hasAdapter(mods[BUILTIN], tag),
                                      got |-> getAdapter(mods[BUILTIN], tag)])]
  /\ UNCHANGED <<menu, util>>
  /\ UNCHANGED engineVarsOnly

ModuleNext == RegisterAdapter \/ LookupAdapter

ModuleSpec == ModuleInit /\ [][ModuleNext]_vars

\* C21: after any sequence of withAdapter calls, hasAdapter is true exactly
\* when getAdapter returns a generator, and false exactly when getAdapter
\* fails as not registered, at the apiVersion level or at the kind level.
C21_HasIffGet ==
  /\ \A tag \in Tags :
       LET m == mods[BUILTIN]
       IN /\ hasAdapter(m, tag) <=> getAdapter(m, tag) \in Generators
          /\ ~hasAdapter(m, tag) <=> getAdapter(m, tag) \in NotRegistered
  /\ cfg.q # None =>
       /\ cfg.q[1].has <=> cfg.q[1].got \in Generators
       /\ ~cfg.q[1].has <=> cfg.q[1].got \in NotRegistered

\* a lookup that failed at the kind level while another kind of the same
\* apiVersion is registered and another apiVersion is missing altogether
C21_Witness ==
  /\ cfg.q # None
  /\ ~cfg.q[1].has /\ cfg.q[1].got = "error:kind"
  /\ \E t1, t2 \in Tags :
       /\ t1.apiVersion = cfg.q[1].tag.apiVersion
       /\ getAdapter(mods[BUILTIN], t1) \in Generators
       /\ getAdapter(mods[BUILTIN], t2) = "error:apiVersion"

\* the generator of the last withAdapter call for a pair, Undef if none
LastRegistered(regs, tag) ==
  LET idx == {i \in DOMAIN regs : regs[i][1] = tag}
  IN IF idx = {} THEN Undef ELSE regs[Max(idx)][2]

\* the Module a list of withAdapter calls builds from new
RECURSIVE Replay(_, _)
Replay(m, regs) ==
  IF regs = <<>> THEN m
  ELSE Replay(withAdapter(m, Head(regs)[1], Head(regs)[2]), Tail(regs))

\* C22: withAdapter is an idempotent upsert: every pair maps to the
\* generator of the last call for that pair and to nothing if there was no
\* call for it; a call repeated leaves the Module as the first one left it.
C22_UpsertLastWins ==
  LET m == mods[BUILTIN]
      n == Len(cfg.regs)
  IN /\ \A tag \in Tags :
          IF LastRegistered(cfg.regs, tag) = Undef THEN ~hasAdapter(m, tag)
          ELSE getAdapter(m, tag) = LastRegistered(cfg.regs, tag)
     /\ (n >= 2 /\ cfg.regs[n] = cfg.regs[n - 1]) =>
          m = Replay(NewModule(<<"<builtin>">>), SubSeq(cfg.regs, 1, n - 1))
     /\ \A tag \in Tags, a \in Generators :
          withAdapter(withAdapter(m, tag, a), tag, a) = withAdapter(m, tag, a)

\* a pair registered twice with different generators, then a second kind of
\* the same apiVersion: the first pair still has its second generator
C22_Witness ==
  /\ Len(cfg.regs) = 3
  /\ cfg.regs[1][1] = cfg.regs[2][1] /\ cfg.regs[1][2] # cfg.regs[2][2]
  /\ cfg.regs[3][1].apiVersion = cfg.regs[1][1].apiVersion
  /\ cfg.regs[3][1].kind # cfg.regs[1][1].kind
  /\ getAdapter(mods[BUILTIN], cfg.regs[1][1]) = cfg.regs[2][2]

\* ------------------------------------- package mappings and their lookup
AV_WEBAPP == <<"webapp", ".", "gin", ".", "jsr", ".", "io", "/", "v1alpha1">>
AV_J == <<"b", ".", "jsr", ".", "io", "/", "v1">>
AV_X == <<"a", ".", "example", ".", "com", "/", "v2">>

\* the formats handed to withPackageMapping; the second one also matches
\* inside a `<name>.gin.jsr.io/<version>` apiVersion, the regex being unanchored
ApiVersionFormats ==
  { DefaultApiVersionFormat,
    <<"{name}", ".", "jsr", ".", "io", "/", "{version}">>,
    <<"{name}", ".", "example", ".", "com", "/", "{version}">> }

PackageFormats ==
  { DefaultPackageFormat, <<"jsr:", "@x/", "{version}", "-", "{name}">> }

ApiVersions == {AV_CORE, AV_A, AV_WEBAPP, AV_J, AV_X}

MappingInit == NewGin /\ menu = {} /\ Idle

\* gin.withPackageMapping(apiVersionFormat, packageFormat)
WithPackageMapping ==
  /\ Len(cfg.regs) < MaxMappings
  /\ \E af \in ApiVersionFormats, pf \in PackageFormats :
       /\ CommitEngine([S EXCEPT !.packageMappings = withPackageMapping(@, af, pf)])
       /\ cfg' = [regs |-> Append(cfg.regs, <<af, pf>>), q |-> None]
  /\ UNCHANGED <<menu, util>>

\* gin.resolvePackageNameFromApiVersion(apiVersion)
ResolvePackageName ==
  /\ \E av \in ApiVersions :
       cfg' = [cfg EXCEPT !.q = Some([av |-> av,
                 pkg |-> resolvePackageNameFromApiVersion(packageMappings, av)])]
  /\ UNCHANGED <<menu, util>>
  /\ UNCHANGED engineVarsOnly

MappingNext == WithPackageMapping \/ ResolvePackageName

MappingSpec == MappingInit /\ [][MappingNext]_vars

\* the mappings in registration order: the constructor's, then the calls made
Registered == <<(<<DefaultApiVersionFormat, DefaultPackageFormat>>)>> \o cfg.regs

\* what the earliest-registered matching mapping yields for av, None if no
\* mapping matches
FirstMatch(av) ==
  LET hits == {i \in DOMAIN Registered : RegexMatch(av, CompileRegex(Registered[i][1])) # None}
  IN IF hits = {} THEN None
     ELSE LET i == Min(hits)
              g == RegexMatch(av, CompileRegex(Registered[i][1]))[1]
          IN ReplaceFirst(ReplaceFirst(Registered[i][2], "{name}", g.name), "{version}", g.version)

\* C23: resolvePackageNameFromApiVersion yields the package format of the
\* earliest-registered mapping that matches, with the two captured groups
\* substituted, and undefined when none matches.
C23_FirstMatchWins ==
  /\ \A av \in ApiVersions :
       resolvePackageNameFromApiVersion(packageMappings, av) = FirstMatch(av)
  /\ cfg.q # None => cfg.q[1].pkg = FirstMatch(cfg.q[1].av)

\* an apiVersion two registered mappings match, resolved by the earlier one
\* to a package the later one would not have given; and one no mapping matches
C23_Witness ==
  /\ cfg.q # None
  /\ \E i, j \in DOMAIN Registered :
       /\ i < j
       /\ RegexMatch(cfg.q[1].av, CompileRegex(Registered[i][1])) # None
       /\ RegexMatch(cfg.q[1].av, CompileRegex(Registered[j][1])) # None
       /\ Registered[i][2] # Registered[j][2]
       /\ cfg.q[1].pkg = <<"jsr:", "@x/", "v1", "-", "b">>
  /\ resolvePackageNameFromApiVersion(packageMappings, AV_CORE) = None

\* apiVersions of the form <name>.gin.jsr.io/<version>
GinApiVersions ==
  {av \in ApiVersions : Len(av) = 9 /\ SubSeq(av, 2, 8) = SubSeq(DefaultApiVersionFormat, 2, 8)}

\* C24: an engine constructed with the defaults resolves every apiVersion
\* <name>.gin.jsr.io/<version> to the package @gin/<name>-<version>; for
\* webapp.gin.jsr.io/v1alpha1 that is @gin/webapp-v1alpha1.
C24_DefaultMapping ==
  (cfg.q # None /\ cfg.q[1].av \in GinApiVersions) =>
    /\ cfg.q[1].pkg = <<"@gin/", cfg.q[1].av[1], "-", cfg.q[1].av[9]>>
    /\ cfg.q[1].av = AV_WEBAPP => cfg.q[1].pkg = <<"@gin/", "webapp", "-", "v1alpha1">>

\* --------------------------------------- options on their way to a factory
PKG_NONE == <<"jsr:", "@gin/", "none", "-", "v1">>

Packages == {PKG_A, PKG_M, PKG_NONE, PKG_OBJ, PKG_FN}

\* records naming package a-v1 with and without the `jsr:` prefix, and one
\* with a falsy pkg
OptionRecords ==
  {Options(k, v) : k \in {PKG_A, Tail(PKG_A), <<>>}, v \in {"x", "y"}}

OptionsInit == NewGin /\ menu = {} /\ Idle

\* gin.withOptions(options)
WithOptions ==
  \E o \in OptionRecords : Commit([S EXCEPT !.options = withOptions(@, o)])

\* gin.withPackage(packageName) called by the pipeline
WithPackage ==
  /\ Len(loads) < MaxLoads
  /\ \E pkg \in Packages : Commit(withPackage(S, pkg))

OptionsNext == WithOptions \/ WithPackage \/ ImportSettle \/ FactorySettle

OptionsSpec == OptionsInit /\ [][OptionsNext]_vars

\* the factory of load l was called
FactoryCalled(l) ==
  PackageExport(loads[l].pkg).type = "function" /\ loads[l].state # "importing"

\* C25: a factory is called with the options record registered for its
\* package under the package name with the `jsr:` prefix, and with undefined
\* when no record was registered; what it is given was registered.
C25_OptionsReachFactory ==
  \A l \in DOMAIN loads :
    FactoryCalled(l) =>
      LET reg == loads[l].registered
      IN /\ loads[l].pkg \in DOMAIN reg => loads[l].options = Some(reg[loads[l].pkg])
         /\ DOMAIN reg = {} => loads[l].options = None
         /\ loads[l].options # None => \E k \in DOMAIN reg : reg[k] = loads[l].options[1]

\* ------------------------------------------------ failures and their reach
\* the package a document would be loaded from cannot be loaded
LoadFails(d) ==
  LET pkg == resolvePackageNameFromApiVersion(
               withPackageMapping(<<>>, DefaultApiVersionFormat, DefaultPackageFormat),
               d.apiVersion)
  IN /\ RegisteredAdapter(TagOf(d)) = Undef
     /\ pkg # None
     /\ PackageExport(pkg).module = None

\* emit(d), by the generators alone, meets no validation failure, no
\* same-locator return, no failing package load, and comes to an end
RECURSIVE Clean(_, _)
Clean(d, fuel) ==
  LET a == AdapterOf(d)
  IN IF fuel = 0 THEN FALSE
     ELSE IF a = Undef THEN ~LoadFails(d)
     ELSE IF ~AdapterValidate(a, d) THEN FALSE
     ELSE LET outs == AdapterGenerate(a, d)
          IN IF outs = <<Input>> THEN TRUE
             ELSE IF Len(outs) = 1 /\ Locator(outs[1].doc[1]) = Locator(d) THEN FALSE
             ELSE \A i \in DOMAIN outs :
                    Clean(IF outs[i].input THEN d ELSE outs[i].doc[1], fuel - 1)

CleanDocs == {d \in RootDocs : Clean(d, MaxPromises + 1)}

\* C26: a root emit call whose own tree has no failure in it is not touched
\* by the failure of another root emit call: once settled it has resolved
\* and its document and all its descendants were sent to the sink.
C26_FailureIsConfined ==
  \A r \in Roots :
    (heap[em[r].arg] \in CleanDocs /\ em[r].pc = "settled") =>
      /\ em[r].result = "resolved"
      /\ AcceptedOf(r, acceptCalls) = Expected(r)

\* the data the document of emission e was given to emit with: what the
\* generator returned for a child, what the caller passed for a root
GivenData(e) ==
  LET p == em[e].parent
  IN IF p # 0 /\ em[e].arg # em[p].res
     THEN LET i == CHOOSE i \in DOMAIN em[p].out : em[p].out[i] = em[e].arg
          IN AdapterGenerate(em[p].adapter, heap[em[p].res])[i].doc[1].data
     ELSE em[e].argSnap.data

\* C27: validate and generate are invoked on a document with the payload it
\* was emitted with, every SecretValue in it still a SecretValue, at every
\* depth of the tree.
C27_WrappersUntilFinal ==
  \A e \in DOMAIN em :
    /\ em[e].seenV # None => em[e].seenV = Some(GivenData(e))
    /\ em[e].seenG # None => em[e].seenG = Some(GivenData(e))

\* a child with a SecretValue went through its own generator after its
\* parent, which carried one too, was sent to the sink without it
C27_Witness ==
  \E e \in DOMAIN em, i \in DOMAIN sink.accepted :
    /\ em[e].parent # 0 /\ sink.accepted[i].em = em[e].parent
    /\ HasSecret(em[em[e].parent].argSnap.data)
    /\ ~HasSecret(sink.accepted[i].doc.data)
    /\ em[e].seenG # None /\ HasSecret(em[e].seenG[1])
    /\ HasSecret(GivenData(e))

\* C28: an emission of a document for which no loaded module has a generator
\* and no package mapping matches starts no package load, gets no warning
\* and no note, and once settled has resolved with the document sent to the
\* sink.
C28_UnmappedIsQuiet ==
  \A e \in DOMAIN em :
    LET d == heap[em[e].res]
    IN (FindModule(S, TagOf(d)) = 0
          /\ resolvePackageNameFromApiVersion(packageMappings, d.apiVersion) = None) =>
         /\ em[e].started = 0
         /\ em[e].warned = 0
         /\ d.gin[1].notes = None
         /\ \A w \in DOMAIN warnings :
              warnings[w].kind = "no-adapter" => warnings[w].locator # em[e].locator
         /\ em[e].pc = "settled" => (em[e].result = "resolved" /\ em[e].accepted = 1)

\* processOnce found no generator for emission e although a mapping matches
NotFoundDespiteMapping(e) ==
  /\ em[e].pc \in {"accept", "settled"}
  /\ em[e].result # "rejected"
  /\ em[e].adapter = Undef
  /\ resolvePackageNameFromApiVersion(packageMappings, heap[em[e].res].apiVersion) # None

\* C29: when no generator is found although a mapping matches, exactly one
\* global warning was pushed and exactly one Warning note attached for the
\* emission, the document is its only output, no child is emitted, and the
\* sink gets it with the note in its annotation; the emission resolves.
C29_MissingGeneratorWarns ==
  \A e \in DOMAIN em :
    NotFoundDespiteMapping(e) =>
      LET d == heap[em[e].res]
          w == NoAdapterWarning(d, resolvePackageNameFromApiVersion(packageMappings, d.apiVersion))
          note == [kind |-> "Warning", message |-> w]
      IN /\ em[e].warned = 1
         /\ em[e].run = run.no => \E i \in DOMAIN warnings : warnings[i] = w
         /\ d.gin[1].notes = Some(<<note>>)
         /\ em[e].out = <<em[e].res>>
         /\ \A c \in DOMAIN em : em[c].parent # e
         /\ em[e].pc = "settled" =>
              /\ em[e].result = "resolved" /\ AcceptCount(e) = 1
              /\ \A i \in DOMAIN sink.accepted :
                   sink.accepted[i].em = e =>
                     /\ sink.accepted[i].doc.annotation[1].notes = <<note>>
                     /\ SameContent(sink.accepted[i].doc, em[e].argSnap)

\* a document of a loaded package that has no generator for its kind, at the
\* sink with its note, and the warning in the list
C29_Witness ==
  \E e \in DOMAIN em, i \in DOMAIN sink.accepted :
    /\ NotFoundDespiteMapping(e) /\ em[e].pc = "settled"
    /\ sink.accepted[i].em = e
    /\ Len(sink.accepted[i].doc.annotation[1].notes) = 1
    /\ \E w \in DOMAIN warnings :
         warnings[w].kind = "no-adapter" /\ warnings[w].locator = em[e].locator

\* C30: for one emission at most one package load is started and the lookup
\* is made at most twice: a second lookup only after the one load, and no
\* load after the second lookup.
C30_OneLoadOneRetry ==
  \A e \in DOMAIN em :
    /\ em[e].started <= 1
    /\ em[e].finds <= 2
    /\ em[e].finds = 2 => em[e].started = 1
    /\ (em[e].started = 1 /\ em[e].pc \notin {"ready", "find"}
          /\ ~(em[e].result = "rejected" /\ em[e].error = "load")) => em[e].finds = 2

\* the loaded package had no generator for the document: two lookups, one
\* load, the document passed through
C30_Witness ==
  \E e \in DOMAIN em :
    /\ em[e].started = 1 /\ em[e].finds = 2
    /\ em[e].adapter = Undef /\ em[e].result = "resolved"
    /\ \E l \in DOMAIN loads : loads[l].state = "fulfilled"

\* ------------------------------------------------ module search order
\* positions in Gin.modules of the modules with a generator for the tag
Holders(tag) == {i \in DOMAIN modules : hasAdapter(mods[modules[i]], tag)}

\* C31: the generator an emission runs is the one of the earliest module in
\* Gin.modules that has a generator for the document's (apiVersion, kind); a
\* generator registered with withResourceAdapter therefore wins over the one
\* of a dynamically loaded module for the same pair.
C31_EarliestModuleWins ==
  \A e \in DOMAIN em :
    em[e].adapter # Undef =>
      LET tag == TagOf(heap[em[e].res])
      IN /\ Holders(tag) # {}
         /\ em[e].adapter = getAdapter(mods[modules[Min(Holders(tag))]], tag)
         /\ RegisteredAdapter(tag) # Undef => em[e].adapter = RegisteredAdapter(tag)

\* a Shared document was looked up after the load of package a-v1, whose
\* module has a generator for Shared too, and got the registered generator
C31_Witness ==
  \E e \in DOMAIN em :
    /\ em[e].adapter = "SharedAdapter" /\ em[e].result = "resolved"
    /\ Cardinality(Holders(TagOf(heap[em[e].res]))) = 2
    /\ \E i \in DOMAIN em[e].wait : loads[em[e].wait[i]].pkg = PKG_A

\* ------------------------------------------------ default export shapes
\* the package's default export is neither a Module nor a function
\* returning one
BadExport(pkg) ==
  LET x == PackageExport(pkg)
  IN x.type = "other" \/ (x.type = "function" /\ x.module = None)

\* C32: the load of a package whose default export is neither a Module nor
\* a function returning a Module never fulfils and appends nothing: the
\* module list holds the builtin module and one module per fulfilled load,
\* none of them from such a package.
C32_BadExportRejects ==
  /\ \A l \in DOMAIN loads :
       BadExport(loads[l].pkg) =>
         /\ loads[l].state \in {"importing", "factory", "rejected"}
         /\ \A i \in DOMAIN modules : mods[modules[i]].pkg # loads[l].pkg
  /\ Len(modules) = 1 + Cardinality({l \in DOMAIN loads : loads[l].state = "fulfilled"})

\* both shapes were loaded and both loads rejected, the module list still
\* holding the builtin module alone
C32_Witness ==
  /\ \E l \in DOMAIN loads : loads[l].pkg = PKG_OBJ /\ loads[l].state = "rejected"
  /\ \E l \in DOMAIN loads : loads[l].pkg = PKG_FN /\ loads[l].state = "rejected"
  /\ modules = <<BUILTIN>>

\* ------------------------------------------------- failure of a child
\* the emissions started by the loop of emit e
ChildrenOf(e) == {k \in DOMAIN em : em[k].parent = e}

\* a child emission of emit e has been rejected
ChildFailed(e) == \E k \in ChildrenOf(e) : em[k].result = "rejected"

\* emission e was sent to the sink, and is in the sink of its run
Delivered(e) ==
  /\ em[e].accepted = 1
  /\ em[e].run = run.no => \E i \in DOMAIN sink.accepted : sink.accepted[i].em = e

\* C33: once the i-th child of an emission is rejected, no later sibling is
\* emitted or sent to the sink, the enclosing emission is rejected with the
\* child's error (and so is every ancestor, the statement holding at every
\* level), and what was sent to the sink before stays delivered.
C33_ChildFailureAborts ==
  \A e \in DOMAIN em :
    ChildFailed(e) =>
      /\ em[em[e].child].result = "rejected"
      /\ em[e].pc \in {"children", "settled"}
      /\ em[e].pc = "settled" =>
            em[e].result = "rejected" /\ em[e].error = em[em[e].child].error
      /\ Cardinality(ChildrenOf(e)) = em[e].idx
      /\ \A k \in ChildrenOf(e) : k <= em[e].child
      /\ \A j \in DOMAIN em[e].out, i \in DOMAIN acceptCalls :
            j > em[e].idx => em[acceptCalls[i]].arg # em[e].out[j]
      /\ Delivered(e)
      /\ \A k \in ChildrenOf(e) : em[k].accepted = 1 => Delivered(k)

\* a grandchild failed validation: its parent and the root above it are
\* rejected with that error, both were delivered, and the later sibling at
\* either level was never emitted
C33_Witness ==
  \E r, b, c \in DOMAIN em :
    /\ em[r].parent = 0 /\ em[b].parent = r /\ em[c].parent = b
    /\ em[c].result = "rejected" /\ em[c].error = "validation" /\ em[c].accepted = 0
    /\ em[b].result = "rejected" /\ em[r].result = "rejected"
    /\ em[r].error = "validation"
    /\ Len(em[r].out) = 2 /\ Len(em[b].out) = 2
    /\ ChildrenOf(r) = {b} /\ ChildrenOf(b) = {c}
    /\ Delivered(r) /\ Delivered(b)

\* ------------------------------------------- loads and pendingPackages
\* C34: a package load that has not settled is in pendingPackages, so that
\* every `ready` taken after its start waits for it before the module list
\* is searched.
C34_InFlightStaysPending ==
  \A l \in DOMAIN loads :
    InFlight(l) => \E i \in DOMAIN pendingPackages : pendingPackages[i] = l

\* ---------------------------------------- duplicate warnings and output
\* documents with locator loc in the sink
DeliveredCount(loc) ==
  Cardinality({i \in DOMAIN sink.accepted : Locator(sink.accepted[i].doc) = loc})

\* C35: when every emission has settled, the duplicate warnings recorded for
\* a locator number one less than the documents with that locator in the
\* sink, and zero when none or one is there.
C35_DupWarningsMatchOutput ==
  (\A e \in DOMAIN em : em[e].pc = "settled") =>
    \A e \in DOMAIN em :
      DupCount(em[e].locator) = Max({0, DeliveredCount(em[e].locator) - 1})

\* ------------------------------------------- the engine without run()
\* The engine as a program drives it by hand: constructed in either mode,
\* given a sink with withSink, documents emitted directly, `done` awaited
\* and printWarnings called; run() may be used afterwards.
ManualMenus ==
  { {Doc(AV_DEMO, "Thing", "ns", "t"), Doc(AV_A, "WebApp", "ns", "w")} }

ManualInit ==
  /\ \E mode \in {"default", "bare"} : Constructed(mode)
  /\ menu \in ManualMenus
  /\ Idle

\* every withResourceAdapter call of the program has been made and run()
\* has not been called
SetUp == run.pc = "setup" /\ run.setup = Len(BuiltinAdapters)

\* gin.withSink(sink) with a sink whose accept completes later
WithSink ==
  /\ SetUp
  /\ em = <<>>
  /\ ~sink.async
  /\ Commit([S EXCEPT !.sink = [StdoutSink EXCEPT !.async = TRUE]])

\* gin.emit(d) called by the program, the promise left to `done`
DirectEmit ==
  /\ SetUp
  /\ run.cbEmits < MaxRootEmits
  /\ \E d \in menu :
       /\ run.demand + EmitDemand(d) <= MaxPromises
       /\ Commit(callbackEmit(S, d, FALSE))

\* `await gin.done`: Promise.all takes the pendingEmits of that moment
DoneRead ==
  /\ SetUp
  /\ Commit([S EXCEPT !.run.doneWait = pendingEmits, !.run.pc = "done"])

\* the promise returned by a sink.accept call settles
AcceptSettle ==
  \E i \in DOMAIN sink.accepted :
    /\ ~sink.accepted[i].done
    /\ Commit([S EXCEPT !.sink.accepted[i].done = TRUE])

ManualNext == Next \/ WithSink \/ DirectEmit \/ DoneRead \/ AcceptSettle

ManualSpec == ManualInit /\ [][ManualNext]_vars

\* emission e has come past discovery
Discovered(e) ==
  /\ em[e].pc \notin {"ready", "find"}
  /\ ~(em[e].result = "rejected" /\ em[e].error = "load")

\* C36: in an engine of either mode, a document emitted after a generator
\* was registered for its (apiVersion, kind) with withResourceAdapter gets
\* that generator: discovery returns it and its validate is called.
C36_RegisteredAdapterIsUsed ==
  \A e \in DOMAIN em :
    (Discovered(e) /\ RegisteredAdapter(TagOf(heap[em[e].res])) # Undef) =>
      /\ em[e].adapter = RegisteredAdapter(TagOf(heap[em[e].res]))
      /\ em[e].validated = 1

\* --------------------------------------------- one delivery per emit
\* discovery, validate and generate have all succeeded for emission e
Processed(e) ==
  IF em[e].adapter = Undef THEN Discovered(e)
  ELSE em[e].generated = 1 /\ em[e].pc # "generate"

\* C37: an emit invocation calls sink.accept at most once, with the finalized
\* clone of its own input, and exactly once when discovery, validate and
\* generate succeeded for it; there are never more accept calls than emit
\* invocations.
C37_OneAcceptPerEmit ==
  /\ Len(acceptCalls) <= Len(em)
  /\ \A e \in DOMAIN em :
       /\ em[e].accepted = AcceptCount(e)
       /\ em[e].accepted <= 1
       /\ Processed(e) => (em[e].pc = "accept" \/ em[e].accepted = 1)
       /\ em[e].accepted = 1 => Processed(e)
  /\ \A i, j \in DOMAIN sink.accepted :
       sink.accepted[i].em = sink.accepted[j].em => i = j
  /\ \A i \in DOMAIN sink.accepted :
       /\ Locator(sink.accepted[i].doc) = em[sink.accepted[i].em].locator
       /\ sink.accepted[i].doc.data = FinalResource(em[sink.accepted[i].em].argSnap).data

\* an expanded root and its expanded child were delivered once each, and
\* the grandchild, which failed validation, was not delivered; all three
\* emit invocations have settled
C37_Witness ==
  \E r, b, c \in DOMAIN em :
    /\ em[b].parent = r /\ em[c].parent = b
    /\ em[r].generated = 1 /\ em[b].generated = 1
    /\ AcceptCount(r) = 1 /\ AcceptCount(b) = 1
    /\ ValidationFailed(c) /\ AcceptCount(c) = 0
    /\ \A e \in {r, b, c} : em[e].pc = "settled"
    /\ Len(acceptCalls) = 2 /\ Len(em) = 3

\* ------------------------------------------ completion of sink.accept
\* emission k belongs to the subtree of emission a
RECURSIVE Within(_, _)
Within(a, k) == k = a \/ (em[k].parent # 0 /\ Within(a, em[k].parent))

\* C38: once an emission is resolved, every sink.accept call made for it and
\* for its subtree has completed, whatever the sink; and once `done` has
\* completed no sink.accept call is in progress.
C38_ResolvedMeansAccepted ==
  /\ \A e \in DOMAIN em, i \in DOMAIN sink.accepted :
       (em[e].result = "resolved" /\ Within(e, sink.accepted[i].em)) =>
         sink.accepted[i].done
  /\ run.pc = "print" => \A i \in DOMAIN sink.accepted : sink.accepted[i].done

\* ------------------------------------------- parent before its output
\* position of emission e's call in the sequence of sink.accept calls, 0 if
\* it made none
AcceptPos(e) ==
  LET hits == {i \in DOMAIN acceptCalls : acceptCalls[i] = e}
  IN IF hits = {} THEN 0 ELSE Min(hits)

\* C39: a document is sent to the sink before its generator's output is
\* looked at: an emission rejected for a same-locator return or for a failed
\* child has been delivered and is in the sink, and every child was emitted
\* after its parent's delivery and delivered after it.
C39_ParentFirst ==
  \A e \in DOMAIN em :
    /\ (SameLocatorReturn(e) /\ em[e].result = "rejected") => Delivered(e)
    /\ ChildFailed(e) => Delivered(e)
    /\ em[e].parent # 0 =>
         /\ AcceptPos(em[e].parent) > 0
         /\ AcceptPos(e) > 0 => AcceptPos(em[e].parent) < AcceptPos(e)

\* the generator-bug error was raised for a document that is in the sink of
\* the run, the only document there
C39_Witness ==
  \E e \in DOMAIN em :
    /\ SameLocatorReturn(e) /\ em[e].error = "generator-bug"
    /\ em[e].run = run.no
    /\ Len(sink.accepted) = 1 /\ sink.accepted[1].em = e
    /\ Locator(sink.accepted[1].doc) = em[e].locator

\* ------------------------------------------------------- termination
\* an order on the kinds of documents: every generator of a pipeline that
\* ends puts out documents of a lower kind than its input
KindRank(kind) ==
  CASE kind \in {"Outer", "App"} -> 3
    [] kind \in {"Broken", "Group", "Thing", "WebApp", "Twin", "Mixed", "Spawner"} -> 2
    [] kind = "Checked" -> 1
    [] OTHER -> 0

\* the generator for d returns the identical input, or documents of lower
\* kind whose generators do the same
RECURSIVE WellFounded(_, _)
WellFounded(d, fuel) ==
  LET outs == AdapterGenerate(AdapterOf(d), d)
  IN \/ AdapterOf(d) = Undef
     \/ outs = <<Input>>
     \/ /\ fuel > 0
        /\ \A i \in DOMAIN outs :
             /\ ~outs[i].input
             /\ KindRank(outs[i].doc[1].kind) < KindRank(d.kind)
             /\ WellFounded(outs[i].doc[1], fuel - 1)

\* the pipelines all of whose generators are of that sort
LiveMenus == {m \in Menus : \A d \in m : WellFounded(d, MaxDepth)}

LiveInit ==
  /\ NewGin
  /\ menu \in LiveMenus
  /\ Idle

\* a continuation of the engine that is ready to run: a settled import,
\* factory, validate or generate call, a settled `ready`, child emission or
\* `done`, or an emit body that goes on
EngineStep ==
  \/ DoneSettle
  \/ ImportSettle
  \/ FactorySettle
  \/ ReadySettle
  \/ ValidateSettle
  \/ GenerateSettle
  \/ ChildSettle
  \/ FindAdapter
  \/ AcceptStep

\* Every package import, factory, validate and generate call terminates and
\* the event loop runs a continuation whenever one is ready.
LiveSpec == LiveInit /\ [][Next]_vars /\ WF_vars(EngineStep)

\* C40: every emission eventually settles, and an awaited `done` eventually
\* settles, when loads and generator calls terminate and the generators put
\* out the identical input or documents of lower kind.  A settled emission
\* stays settled, so the statement is that again and again all emissions
\* made so far have settled, and that run() does not stay at `await done`.
C40_EveryEmissionSettles ==
  /\ []<>(\A e \in DOMAIN em : em[e].pc = "settled")
  /\ []<>(run.pc # "done")

\* a tree three emissions deep has settled, and so has the run that awaited
\* it
C40_Witness ==
  /\ run.pc = "settled"
  /\ \A e \in DOMAIN em : em[e].pc = "settled"
  /\ \E c \in DOMAIN em :
       /\ em[c].parent # 0 /\ em[em[c].parent].parent # 0
       /\ em[c].result = "resolved"

====
